---- MODULE Spec2Model ----
\* Model of src/src/lib.rs: a single-producer broadcast buffer.
\*
\*   Publisher     data (a VecDeque of MaybeUninit slots), first_count, readers
\*   StreamReader  source, unread_data (a VecDeque of pointer/Counter pairs)
\*   BorrowRead    obj, reader, counter; its Drop calls reader_done
\*   BorrowWrite   obj, newcount; finish() fans out, Drop without finish
\*                 reaches todo!()
\*
\* The raw pointers of the source are modelled as addresses <<buffer, cell>>
\* into the ring buffer of the VecDeque, so that a pointer can be told from
\* the slot it was taken from.
\*
\* The host: StreamReader and BorrowRead reach the Publisher through raw
\* pointers, and allocate documents several outstanding BorrowWrite handles
\* ("if you allocate multiple times, please finish in order"), so readers
\* register, read, acknowledge and go away while a BorrowWrite is outstanding
\* (kept, or leaked with mem::forget). A BorrowRead borrows its StreamReader
\* mutably, so a reader has at most one and is not dropped while it has one.
EXTENDS Integers, Sequences, FiniteSets

\* ---------------------------------------------------------------- bounds
\* Width of Counter in bits (usize in the source, scaled down).
CounterBits == 3
\* Largest number of slots the Publisher retains in the model.
MaxLen == 3
\* Largest length of a reader's unread_data queue in the model.
MaxQueue == 3
\* Largest number of outstanding BorrowWrite handles in the model.
MaxWrites == 1
\* Number of StreamReader objects the host creates.
NReaders == 2

\* ------------------------------------------------------------- constants
\* RawVec's smallest non-empty capacity: 4 for an element type T of at most
\* 1024 bytes (the u32 of test::push), 1 for a larger T.
MinNonZeroCap == 4
MinNonZeroCapLarge == 1

Modulus == 2 ^ CounterBits
Counter == 0 .. (Modulus - 1)
Readers == 1 .. NReaders
\* Publisher<T> is generic in T and never inspects a payload, so the host's
\* payloads are taken pairwise distinct: the item given sequence number c is
\* c + 1 (test::push publishes 1 at sequence 0 and writes 2 at sequence 1).
Values == 1 .. Modulus
Payload(c) == c + 1
Uninit == 0
Garbage == -1

wrapping_add(a, b) == (a + b) % Modulus
wrapping_sub(a, b) == (a - b + Modulus) % Modulus

SetMin(S) == CHOOSE x \in S : \A y \in S : x <= y

\* ------------------------------------------------------------- VecDeque
\* data = [buf, cap, head, items, min]: the allocation, its capacity, the
\* cell of the front element, the elements front to back, and the smallest
\* non-empty capacity of the element type.
VecDequeNew == [buf |-> 0, cap |-> 0, head |-> 0, items |-> <<>>, min |-> MinNonZeroCap]

DLen(d) == Len(d.items)

\* Address of the element at logical index i (0-based).
PtrAt(d, i) == <<d.buf, (d.head + i) % d.cap>>

BackPtr(d) == PtrAt(d, DLen(d) - 1)

\* VecDeque::grow: the buffer is reallocated (moved or extended in place)
\* and handle_capacity_increase makes the ring contiguous again.
Grow(d, moved) ==
    LET oldcap == d.cap
        newcap == IF oldcap = 0 THEN d.min ELSE 2 * oldcap
        len == DLen(d)
        newbuf == IF moved \/ oldcap = 0 THEN d.buf + 1 ELSE d.buf
        headlen == oldcap - d.head
        taillen == len - headlen
    IN  IF oldcap = 0 \/ d.head <= oldcap - len
          THEN [d EXCEPT !.buf = newbuf, !.cap = newcap]
        ELSE IF headlen > taillen /\ newcap - oldcap >= taillen
          THEN [d EXCEPT !.buf = newbuf, !.cap = newcap]
        ELSE [d EXCEPT !.buf = newbuf, !.cap = newcap, !.head = newcap - headlen]

push_back(d, v, moved) ==
    LET g == IF DLen(d) = d.cap THEN Grow(d, moved) ELSE d
    IN  [g EXCEPT !.items = Append(g.items, v)]

pop_front(d) ==
    IF DLen(d) = 0 THEN d
    ELSE [d EXCEPT !.head = (d.head + 1) % d.cap, !.items = Tail(d.items)]

RECURSIVE pop_front_n(_, _)
pop_front_n(d, n) == IF n = 0 THEN d ELSE pop_front_n(pop_front(d), n - 1)

\* The logical indices whose element lives at address p.
IndexOf(d, p) == {i \in 0 .. (DLen(d) - 1) : PtrAt(d, i) = p}

\* What `&*ptr` can yield for a pointer taken from the slot numbered c: the
\* element stored at p when p is the address of an initialised retained
\* element; when p dangles or the element is uninitialised, whatever the
\* bytes there hold (the value that slot had, or anything else).
Deref(d, p, c) ==
    IF IndexOf(d, p) # {} /\ d.items[SetMin(IndexOf(d, p)) + 1] # Uninit
      THEN {d.items[SetMin(IndexOf(d, p)) + 1]}
      ELSE {Payload(c), Garbage}

VARIABLES
    data,          \* Publisher.data
    first_count,   \* Publisher.first_count
    readers,       \* Publisher.readers: set of ConsumerInfo
    source,        \* StreamReader.source per reader: "null", "publisher"; once the
                   \* reader is dropped, "gone" (it was registered) or "dropped"
    unread_data,   \* StreamReader.unread_data per reader
    borrow,        \* per reader: <<>> or <<its outstanding BorrowRead>>
    writes,        \* the outstanding BorrowWrite handles, oldest first
    panic,         \* "none", or the panic raised: "todo" (Drop for BorrowWrite),
                   \* "overflow" (the checked addition of reader_done)
    script,        \* ghost: position reached in the scenario of test::push
    backlog,       \* ghost: per reader, replayed entries it has not pulled yet
    read_none      \* ghost: the last call was a read that returned None

vars == <<data, first_count, readers, source, unread_data, borrow, writes,
          panic, script, backlog, read_none>>

\* ------------------------------------------------------- scenario ghost
\* The calls of test::push, in order (argument 0: none).
PushScript ==
    << <<"publish", 1>>, <<"add_reader", 1>>, <<"read", 1>>, <<"drop_read", 1>>,
       <<"add_reader", 2>>, <<"allocate", 0>>, <<"write", 2>>, <<"finish", 0>>,
       <<"read", 2>>, <<"drop_read", 2>>, <<"read", 1>>, <<"drop_read", 1>> >>

Off == -1

\* script counts the calls of test::push made so far, as long as the run has
\* made exactly those calls and no other.
ScriptStep(op) ==
    IF script # Off /\ script < Len(PushScript) /\ PushScript[script + 1] = op
      THEN script + 1
      ELSE Off

\* ---------------------------------------------------------- StreamReader
from_reader(r) == [unread |-> 0, reader |-> r]

new_data(q, ptr, count) == Append(q, [ptr |-> ptr, count |-> count])

Registered == {i.reader : i \in readers}

\* The loop `for i in self.readers.iter_mut() { ... new_data(data, count) }`.
FanOut(q, ptr, count) ==
    [r \in Readers |-> IF r \in Registered THEN new_data(q[r], ptr, count) ELSE q[r]]

RECURSIVE Replay(_, _, _, _)
\* The loop of add_reader over self.data.iter().enumerate(), from index n.
Replay(q, d, first, n) ==
    IF n >= DLen(d) THEN q
    ELSE Replay(new_data(q, PtrAt(d, n), wrapping_add(first, n)), d, first, n + 1)

\* ------------------------------------------------------------- Publisher
\* Sequence numbers handed to BorrowWrite handles that are still outstanding.
Reserved == {writes[k].newcount : k \in 1 .. Len(writes)}

\* Whether the slot numbered c is retained: first_count <= c < first_count + len.
Retained(c) == wrapping_sub(c, first_count) < DLen(data)

\* Ghost: the number of retained slots that are committed.
CommittedLen ==
    Cardinality({n \in 0 .. (DLen(data) - 1) : wrapping_add(first_count, n) \notin Reserved})

Init ==
    /\ data = VecDequeNew
    /\ first_count = 0
    /\ readers = {}
    /\ source = [r \in Readers |-> "null"]
    /\ unread_data = [r \in Readers |-> <<>>]
    /\ borrow = [r \in Readers |-> <<>>]
    /\ writes = <<>>
    /\ panic = "none"
    /\ script = 0
    /\ backlog = [r \in Readers |-> 0]
    /\ read_none = FALSE

\* The reallocation of a full buffer may move it or extend it in place.
MoveChoices(d) == IF DLen(d) = d.cap /\ d.cap > 0 THEN BOOLEAN ELSE {FALSE}

QueueRoom == \A r \in Registered : Len(unread_data[r]) < MaxQueue

\* Mutant of publish: a bounded buffer that drops its oldest slot when nobody
\* is registered.
publish_evicting(obj) ==
    /\ panic = "none"
    /\ writes = <<>>
    /\ DLen(data) < MaxLen
    /\ QueueRoom
    /\ obj = Payload(wrapping_add(first_count, DLen(data)))
    /\ LET evict == readers = {} /\ DLen(data) > 0
           d0 == IF evict THEN pop_front(data) ELSE data
           f0 == IF evict THEN wrapping_add(first_count, 1) ELSE first_count
       IN  \E moved \in MoveChoices(d0) :
             LET newcount == wrapping_add(f0, DLen(d0))
                 d == push_back(d0, obj, moved)
             IN  /\ data' = d
                 /\ first_count' = f0
                 /\ unread_data' = FanOut(unread_data, BackPtr(d), newcount)
    /\ script' = ScriptStep(<<"publish", obj>>)
    /\ read_none' = FALSE
    /\ UNCHANGED <<readers, source, borrow, writes, panic, backlog>>

\* publish while a BorrowWrite is outstanding would complete a later slot
\* before an earlier one, which the contract of allocate ("please finish in
\* order") excludes.
publish(obj) ==
    /\ panic = "none"
    /\ writes = <<>>
    /\ DLen(data) < MaxLen
    /\ QueueRoom
    /\ obj = Payload(wrapping_add(first_count, DLen(data)))
    /\ \E moved \in MoveChoices(data) :
         LET newcount == wrapping_add(first_count, DLen(data))
             d == push_back(data, obj, moved)
         IN  /\ data' = d
             /\ unread_data' = FanOut(unread_data, BackPtr(d), newcount)
    /\ script' = ScriptStep(<<"publish", obj>>)
    /\ read_none' = FALSE
    /\ UNCHANGED <<first_count, readers, source, borrow, writes, panic, backlog>>

add_reader(r) ==
    /\ panic = "none"
    /\ source[r] = "null"
    /\ DLen(data) <= MaxQueue
    /\ source' = [source EXCEPT ![r] = "publisher"]
    /\ unread_data' = [unread_data EXCEPT ![r] = Replay(@, data, first_count, 0)]
    /\ readers' = readers \cup {from_reader(r)}
    /\ backlog' = [backlog EXCEPT ![r] = CommittedLen]
    /\ script' = ScriptStep(<<"add_reader", r>>)
    /\ read_none' = FALSE
    /\ UNCHANGED <<data, first_count, borrow, writes, panic>>

\* Mutant of read: the popped entry is unwrapped, so a read on an empty queue
\* panics instead of returning None.
read_unwrap(r) ==
    /\ panic = "none"
    /\ source[r] \in {"null", "publisher"}
    /\ borrow[r] = <<>>
    /\ IF unread_data[r] = <<>>
         THEN /\ panic' = "unwrap"
              /\ UNCHANGED <<unread_data, borrow, backlog>>
         ELSE LET e == Head(unread_data[r])
              IN  /\ unread_data' = [unread_data EXCEPT ![r] = Tail(@)]
                  /\ borrow' = [borrow EXCEPT ![r] =
                           << [obj |-> e.ptr, counter |-> e.count] >>]
                  /\ backlog' = [backlog EXCEPT ![r] = IF @ > 0 THEN @ - 1 ELSE 0]
                  /\ UNCHANGED panic
    /\ script' = ScriptStep(<<"read", r>>)
    /\ read_none' = (unread_data[r] = <<>>)
    /\ UNCHANGED <<data, first_count, readers, source, writes>>

\* StreamReader::read: None on an empty queue, else a BorrowRead.
read(r) ==
    /\ panic = "none"
    /\ source[r] \in {"null", "publisher"}
    /\ borrow[r] = <<>>
    /\ IF unread_data[r] = <<>>
         THEN UNCHANGED <<unread_data, borrow, backlog>>
         ELSE LET e == Head(unread_data[r])
              IN  /\ unread_data' = [unread_data EXCEPT ![r] = Tail(@)]
                  /\ borrow' = [borrow EXCEPT ![r] =
                           << [obj |-> e.ptr, counter |-> e.count] >>]
                  /\ backlog' = [backlog EXCEPT ![r] = IF @ > 0 THEN @ - 1 ELSE 0]
    /\ script' = ScriptStep(<<"read", r>>)
    /\ read_none' = (unread_data[r] = <<>>)
    /\ UNCHANGED <<data, first_count, readers, source, writes, panic>>

\* The registry after `i.unread = info.unread.wrapping_add(1)` for info.reader.
Acknowledged(info) ==
    {IF i.reader = info.reader
       THEN [i EXCEPT !.unread = wrapping_add(info.unread, 1)]
       ELSE i : i \in readers}

\* Mutant of MinUsedMinusFirst: the minimum does not start at data.len().
MinUsedMinusFirst_uncapped(rs) ==
    SetMin({wrapping_sub(i.unread, first_count) : i \in rs})

\* min_used_minus_first at the end of the loop of reader_done.
MinUsedMinusFirst(rs) ==
    SetMin({DLen(data)} \cup {wrapping_sub(i.unread, first_count) : i \in rs})

\* reader_done, called by Drop for BorrowRead. `self.first_count += m` is a
\* checked addition: on overflow a build with overflow checks panics, a build
\* without them wraps.
reader_done(info) ==
    LET rs == Acknowledged(info)
        m == MinUsedMinusFirst(rs)
    IN  /\ readers' = rs
        /\ \/ /\ data' = pop_front_n(data, m)
              /\ first_count' = wrapping_add(first_count, m)
              /\ UNCHANGED panic
           \/ /\ first_count + m >= Modulus
              /\ panic' = "overflow"
              /\ UNCHANGED <<data, first_count>>

drop_read(r) ==
    /\ panic = "none"
    /\ borrow[r] # <<>>
    /\ reader_done([unread |-> borrow[r][1].counter, reader |-> r])
    /\ borrow' = [borrow EXCEPT ![r] = <<>>]
    /\ script' = ScriptStep(<<"drop_read", r>>)
    /\ read_none' = FALSE
    /\ UNCHANGED <<source, unread_data, writes, backlog>>

\* Mutant of remove_reader: the registry entry of the dropped reader stays.
remove_reader_keep(r) == readers

remove_reader(r) == {e \in readers : e.reader # r}

\* Drop for StreamReader (its BorrowRead borrows it, so none is outstanding).
drop_reader(r) ==
    /\ panic = "none"
    /\ source[r] \in {"null", "publisher"}
    /\ borrow[r] = <<>>
    /\ readers' = IF source[r] = "publisher" THEN remove_reader(r) ELSE readers
    /\ source' = [source EXCEPT ![r] = IF @ = "publisher" THEN "gone" ELSE "dropped"]
    /\ unread_data' = [unread_data EXCEPT ![r] = <<>>]
    /\ backlog' = [backlog EXCEPT ![r] = 0]
    /\ script' = ScriptStep(<<"drop_reader", r>>)
    /\ read_none' = FALSE
    /\ UNCHANGED <<data, first_count, borrow, writes, panic>>

allocate ==
    /\ panic = "none"
    /\ Len(writes) < MaxWrites
    /\ DLen(data) < MaxLen
    /\ \E moved \in MoveChoices(data) :
         LET newcount == wrapping_add(first_count, DLen(data))
             d == push_back(data, Uninit, moved)
         IN  /\ data' = d
             /\ writes' = Append(writes, [obj |-> BackPtr(d), newcount |-> newcount])
    /\ script' = ScriptStep(<<"allocate", 0>>)
    /\ read_none' = FALSE
    /\ UNCHANGED <<first_count, readers, source, unread_data, borrow, panic, backlog>>

\* MaybeUninit::write through the handle's obj. A write through a pointer
\* that no longer addresses a retained element changes no element.
write(k, v) ==
    /\ panic = "none"
    /\ k \in 1 .. Len(writes)
    /\ v = Payload(writes[k].newcount)
    /\ LET ix == IndexOf(data, writes[k].obj)
       IN  data' = IF ix = {} THEN data
                   ELSE [data EXCEPT !.items[SetMin(ix) + 1] = v]
    /\ script' = ScriptStep(<<"write", v>>)
    /\ read_none' = FALSE
    /\ UNCHANGED <<first_count, readers, source, unread_data, borrow, writes, panic, backlog>>

\* Mutant of finish: the fan-out numbers the slot afresh instead of using the
\* number assigned by allocate.
finish_recount ==
    /\ panic = "none"
    /\ writes # <<>>
    /\ QueueRoom
    /\ unread_data' = FanOut(unread_data, Head(writes).obj,
                             wrapping_add(first_count, DLen(data)))
    /\ writes' = Tail(writes)
    /\ script' = ScriptStep(<<"finish", 0>>)
    /\ read_none' = FALSE
    /\ UNCHANGED <<data, first_count, readers, source, borrow, panic, backlog>>

\* BorrowWrite::finish on the oldest outstanding handle ("please finish in
\* order"); the handle is consumed with written = true.
finish ==
    /\ panic = "none"
    /\ writes # <<>>
    /\ QueueRoom
    /\ unread_data' = FanOut(unread_data, Head(writes).obj, Head(writes).newcount)
    /\ writes' = Tail(writes)
    /\ script' = ScriptStep(<<"finish", 0>>)
    /\ read_none' = FALSE
    /\ UNCHANGED <<data, first_count, readers, source, borrow, panic, backlog>>

\* Drop for BorrowWrite with written = false: todo!("cleanup") panics.
abandon(k) ==
    /\ panic = "none"
    /\ k \in 1 .. Len(writes)
    /\ panic' = "todo"
    /\ writes' = SubSeq(writes, 1, k - 1) \o SubSeq(writes, k + 1, Len(writes))
    /\ script' = ScriptStep(<<"abandon", 0>>)
    /\ read_none' = FALSE
    /\ UNCHANGED <<data, first_count, readers, source, unread_data, borrow, backlog>>

Next ==
    \/ \E v \in Values : publish(v)
    \/ \E r \in Readers : add_reader(r)
    \/ \E r \in Readers : read(r)
    \/ \E r \in Readers : drop_read(r)
    \/ \E r \in Readers : drop_reader(r)
    \/ allocate
    \/ \E k \in 1 .. MaxWrites, v \in Values : write(k, v)
    \/ finish
    \/ \E k \in 1 .. MaxWrites : abandon(k)

Spec == Init /\ [][Next]_vars

\* A host that only publishes: no BorrowWrite is ever taken.
NextPublishOnly ==
    \/ \E v \in Values : publish(v)
    \/ \E r \in Readers : add_reader(r)
    \/ \E r \in Readers : read(r)
    \/ \E r \in Readers : drop_read(r)
    \/ \E r \in Readers : drop_reader(r)

SpecPublishOnly == Init /\ [][NextPublishOnly]_vars

\* Publisher<T> for an element type T of more than 1024 bytes: the buffer
\* starts with capacity 1 and doubles, so it is reallocated within MaxLen.
InitLarge ==
    /\ data = [VecDequeNew EXCEPT !.min = MinNonZeroCapLarge]
    /\ first_count = 0
    /\ readers = {}
    /\ source = [r \in Readers |-> "null"]
    /\ unread_data = [r \in Readers |-> <<>>]
    /\ borrow = [r \in Readers |-> <<>>]
    /\ writes = <<>>
    /\ panic = "none"
    /\ script = 0
    /\ backlog = [r \in Readers |-> 0]
    /\ read_none = FALSE

SpecLarge == InitLarge /\ [][Next]_vars

SpecLargePublishOnly == InitLarge /\ [][NextPublishOnly]_vars

\* ============================================================ properties
\* The entries a reader still has to hand out or is handing out: the item of
\* its outstanding BorrowRead, then its unread_data, oldest first.
Pending(r) ==
    (IF borrow[r] = <<>> THEN <<>>
     ELSE << [ptr |-> borrow[r][1].obj, count |-> borrow[r][1].counter] >>)
    \o unread_data[r]

\* The entry's pointer yields the item published under the entry's number.
IsItem(e) == Deref(data, e.ptr, e.count) = {Payload(e.count)}

\* The sequence number the next commit or publish fans out.
NextCommit ==
    IF writes = <<>> THEN wrapping_add(first_count, DLen(data))
    ELSE Head(writes).newcount

\* The number of oldest retained slots whose sequence number is below the
\* high-water mark (unread) of every registered reader, counted from
\* first_count in wrap-around order.
Stale == IF readers = {} THEN 0 ELSE MinUsedMinusFirst(readers)

\* first_count is the smallest high-water mark: some registered reader's
\* unread equals it and none lies outside first_count .. first_count + len.
BaseIsMinHighWater ==
    readers # {} =>
        /\ \E i \in readers : i.unread = first_count
        /\ \A i \in readers : wrapping_sub(i.unread, first_count) <= DLen(data)

IsDropRead(r) == borrow[r] # <<>> /\ borrow'[r] = <<>>
IsAddReader(r) == source[r] = "null" /\ source'[r] = "publisher"
IsDropReader(r) == source[r] = "publisher" /\ source'[r] = "gone"
IsFinish == writes # <<>> /\ writes' = Tail(writes) /\ panic' = "none"

\* C1: delivery in order. For every registered reader the items it is handing
\* out and has still to hand out are the published items themselves, carry
\* consecutive sequence numbers (no gap, no duplicate) and reach up to the
\* newest committed item.
C1_DeliveryInOrder ==
    \A r \in Registered :
        LET p == Pending(r)
        IN  /\ \A k \in 1 .. Len(p) : IsItem(p[k])
            /\ \A k \in 1 .. (Len(p) - 1) : p[k + 1].count = wrapping_add(p[k].count, 1)
            /\ p # <<>> => wrapping_add(p[Len(p)].count, 1) = NextCommit

\* C2: eviction safety. Every entry of a registered reader's pending queue
\* and every item held by an outstanding BorrowRead refers to a slot that is
\* still retained.
C2_EvictionSafety ==
    \A r \in Registered :
        \A k \in 1 .. Len(Pending(r)) : Retained(Pending(r)[k].count)

\* C3: reclamation target. Immediately after every acknowledge (the drop of a
\* BorrowRead) first_count equals the minimum high-water mark of the
\* registered readers.
C3_ReclamationTarget ==
    [][\A r \in Readers : IsDropRead(r) => BaseIsMinHighWater']_vars

\* C4: backlog replay. The entries replayed to a reader at registration and
\* not pulled yet are the first entries of its queue, oldest first, and each
\* still yields the committed item it was replayed for.
C4_BacklogReplay ==
    \A r \in Registered :
        /\ backlog[r] <= Len(unread_data[r])
        /\ \A k \in 1 .. backlog[r] :
            /\ k <= Len(unread_data[r])
            /\ IsItem(unread_data[r][k])
            /\ k > 1 => unread_data[r][k].count =
                            wrapping_add(unread_data[r][k - 1].count, 1)

\* The scenario of test::push: r1 reads 1, then r2 reads 2, then r1 reads 2,
\* and nothing else is left to read.
C5_Scenario ==
    /\ script = 3 => /\ borrow[1] # <<>>
                     /\ Deref(data, borrow[1][1].obj, borrow[1][1].counter) = {1}
    /\ script = 9 => /\ borrow[2] # <<>>
                     /\ Deref(data, borrow[2][1].obj, borrow[2][1].counter) = {2}
    /\ script = 11 => /\ borrow[1] # <<>>
                      /\ Deref(data, borrow[1][1].obj, borrow[1][1].counter) = {2}
    /\ script = Len(PushScript) =>
          /\ \A r \in Readers : unread_data[r] = <<>> /\ borrow[r] = <<>>
          /\ Registered = {1, 2}

\* A commit appends (the handle's slot, the number assigned by allocate) to
\* the queue of every registered reader and changes no other queue.
C5_CommitFanOut ==
    IsFinish =>
        \A r \in Readers :
            unread_data'[r] =
                IF r \in Registered
                  THEN Append(unread_data[r],
                              [ptr |-> Head(writes).obj, count |-> Head(writes).newcount])
                  ELSE unread_data[r]

\* When the committed slot is still the newest retained slot, the entry the
\* commit enqueues is the one publish enqueues for that slot: (address of the
\* back of data, first_count + index of the back).
C5_SameAsPublish ==
    (/\ IsFinish
     /\ DLen(data) > 0
     /\ wrapping_add(Head(writes).newcount, 1) = wrapping_add(first_count, DLen(data)))
    => \A r \in Registered :
           unread_data'[r] =
               new_data(unread_data[r], BackPtr(data),
                        wrapping_add(first_count, DLen(data) - 1))

\* C5: commit is equivalent to publish. Committing a reserved slot enqueues
\* (slot, pre-assigned sequence number) to exactly the registered readers, as
\* publish does, and the scenario of test::push ends with r1 having read
\* 1, 2 and r2 having read 2 only.
C5_CommitIsPublish ==
    /\ []C5_Scenario
    /\ [][C5_CommitFanOut]_vars
    /\ [][C5_SameAsPublish]_vars

\* The scenario of test::push has run to its end.
C5_Witness == script = Len(PushScript)

\* C6: uncommitted slots are invisible to replay. Registration enqueues no
\* slot that is reserved and not yet committed.
C6_UncommittedInvisible ==
    [][\A r \in Readers :
          IsAddReader(r) =>
              \A k \in 1 .. Len(unread_data'[r]) :
                  unread_data'[r][k].count \notin Reserved]_vars

\* C7: abandonment rolls back. Releasing a BorrowWrite without commit does
\* not abort.
C7_AbandonRollsBack == panic # "todo"

\* C8: deregistration unpins. Once a reader has been deregistered, the next
\* acknowledge of a remaining reader leaves no retained slot below the
\* high-water mark of every remaining reader.
C8_DeregistrationUnpins ==
    [][\A r \in Readers :
          (IsDropRead(r) /\ \E s \in Readers : source[s] = "gone") => Stale' = 0]_vars

\* C9: deregistration re-runs reclamation. Right after a reader is
\* deregistered no retained slot is below the high-water mark of every
\* remaining reader.
C9_DeregistrationReclaims ==
    [][\A r \in Readers : (IsDropReader(r) /\ readers' # {}) => Stale' = 0]_vars

\* C10: idle-buffer growth. While no reader is registered no step evicts:
\* first_count is unchanged, the retained length never shrinks, and every
\* publish increases it by exactly one.
C10_IdleGrowth ==
    [][readers = {} =>
          /\ first_count' = first_count
          /\ DLen(data') >= DLen(data)
          /\ (\E v \in Values : publish(v)) => DLen(data') = DLen(data) + 1]_vars

\* Two items were published and are retained although no reader ever existed.
C10_Witness ==
    /\ readers = {}
    /\ \A r \in Readers : source[r] = "null"
    /\ writes = <<>>
    /\ DLen(data) >= 2

\* A sequence number seen from first_count with unbounded integers: a number
\* below first_count lies beyond the wrap from Modulus - 1 to 0.
Lift(u) == IF u >= first_count THEN u ELSE u + Modulus

\* The smallest high-water mark of the registry rs, in unbounded integers.
UnboundedMin(rs) == SetMin({Lift(i.unread) : i \in rs})

\* Every high-water mark of rs lies in first_count .. first_count + len.
MarksInWindow(rs) == \A i \in rs : Lift(i.unread) - first_count <= DLen(data)

\* C11: wraparound. An acknowledge after which every high-water mark lies in
\* first_count .. first_count + len (across the wrap or not) computes the
\* minimum and the eviction count of unbounded integers, advances first_count
\* modulo 2^w by that count, evicts that many slots, and does not panic.
C11_Wraparound ==
    [][\A r \in Readers :
          (IsDropRead(r) /\ MarksInWindow(readers')) =>
              LET m == UnboundedMin(readers') - first_count
              IN  /\ panic' = "none"
                  /\ MinUsedMinusFirst(readers') = m
                  /\ first_count' = (first_count + m) % Modulus
                  /\ DLen(data') = DLen(data) - m]_vars

\* C12: register initialises the high-water mark to the base. Right after
\* add_reader the registry entry of the new reader has unread = first_count,
\* whatever first_count is.
C12_RegisterAtBase ==
    [][\A r \in Readers :
          IsAddReader(r) =>
              /\ \E i \in readers' : i.reader = r
              /\ \A i \in readers' : i.reader = r => i.unread = first_count']_vars

\* C13: empty read is a value. A read on an empty unread_data returns None
\* (no BorrowRead comes into being, so no acknowledge follows from it), does
\* not panic, and leaves the reader's queue, every high-water mark,
\* first_count and the retained slots unchanged.
C13_EmptyRead ==
    [][\A r \in Readers :
          (read(r) /\ unread_data[r] = <<>>) =>
              /\ read_none'
              /\ borrow'[r] = <<>>
              /\ panic' = "none"
              /\ UNCHANGED <<unread_data, readers, first_count, data, borrow, writes>>]_vars

\* A registered reader has just read None while slots are retained and
\* another reader still has entries to read.
C13_Witness ==
    /\ read_none
    /\ DLen(data) > 0
    /\ \E r \in Registered : \E s \in Registered \ {r} :
          /\ unread_data[r] = <<>>
          /\ unread_data[s] # <<>>

\* The pointer p is the address of the retained slot numbered c.
HoldsSlot(p, c) ==
    /\ Retained(c)
    /\ p = PtrAt(data, wrapping_sub(c, first_count))

\* C14: stable slot addresses. The pointer of every entry of a reader's
\* unread_data, of every outstanding BorrowRead and of every outstanding
\* BorrowWrite is the address at which data currently holds the slot with
\* that sequence number.
C14_StableAddresses ==
    /\ \A r \in Readers : \A k \in 1 .. Len(Pending(r)) :
          HoldsSlot(Pending(r)[k].ptr, Pending(r)[k].count)
    /\ \A k \in 1 .. Len(writes) : HoldsSlot(writes[k].obj, writes[k].newcount)

\* A publish appends (address of the new slot, first_count + length before)
\* to the queue of every registered reader and changes no other queue; the
\* appended pointer yields the published item.
C15_PublishFanOut ==
    \A v \in Values :
        publish(v) =>
            \A r \in Readers :
                IF r \in Registered
                  THEN LET e == [ptr |-> BackPtr(data'),
                                 count |-> wrapping_add(first_count, DLen(data))]
                       IN  /\ unread_data'[r] = Append(unread_data[r], e)
                           /\ Deref(data', e.ptr, e.count) = {v}
                  ELSE unread_data'[r] = unread_data[r]

\* A dropped reader is not in the registry and has no queue.
C15_GoneIsOut ==
    \A s \in Readers :
        source[s] \in {"gone", "dropped"} => s \notin Registered /\ unread_data[s] = <<>>

C16_AckFrame ==
    \A r \in Readers :
        IsDropRead(r) =>
            /\ \A j \in readers' : j.reader = r =>
                   j.unread = wrapping_add(borrow[r][1].counter, 1)
            /\ \A i \in readers : i.reader # r => i \in readers'
            /\ {j.reader : j \in readers'} = Registered
            /\ unread_data' = unread_data

\* No step moves a reader's unread backwards: the new value is the old one
\* advanced by less than half of the counter's range.
C16_NoDecrease ==
    \A i \in readers : \A j \in readers' :
        i.reader = j.reader => wrapping_sub(j.unread, i.unread) < Modulus \div 2

\* C16: acknowledge updates only its own subscriber. The release of a
\* BorrowRead for (reader r, sequence q) sets r's unread to q + 1 (mod 2^w)
\* and leaves every other reader's unread and every unread_data unchanged;
\* consequently no reader's unread ever decreases (modularly).
C16_AckOwnOnly ==
    /\ [][C16_AckFrame]_vars
    /\ [][C16_NoDecrease]_vars

\* The sequence number the next publish or allocate assigns.
NextCount == wrapping_add(first_count, DLen(data))

\* An acknowledge evicts as many slots as it advances first_count by, never
\* more than are retained, and leaves NextCount unchanged.
C17_AckKeepsNext ==
    \A r \in Readers :
        IsDropRead(r) =>
            /\ NextCount' = NextCount
            /\ DLen(data') <= DLen(data)
            /\ wrapping_sub(first_count', first_count) = DLen(data) - DLen(data')

\* publish and allocate assign NextCount to the new slot and advance it by
\* one; no other step changes it.
C17_AppendAdvances ==
    IF (\E v \in Values : publish(v)) \/ allocate
      THEN /\ NextCount' = wrapping_add(NextCount, 1)
           /\ DLen(data') = DLen(data) + 1
           /\ first_count' = first_count
           /\ allocate => writes'[Len(writes')].newcount = NextCount
           /\ \A r \in Registered :
                 (\E v \in Values : publish(v)) =>
                     unread_data'[r][Len(unread_data'[r])].count = NextCount
      ELSE NextCount' = NextCount

\* C17: sequence continuity under eviction. first_count + len (mod 2^w) is
\* unchanged by every acknowledge and increases by exactly one on every
\* publish or allocate, so successive publishes and allocates are numbered
\* consecutively however acknowledges are interleaved, and an acknowledge
\* never evicts more slots than are retained.
C17_SequenceContinuity ==
    /\ [][C17_AckKeepsNext]_vars
    /\ [][C17_AppendAdvances]_vars

\* Slots were evicted, a published slot is retained, and the slot reserved
\* after it carries the next number.
C17_Witness ==
    /\ first_count >= 2
    /\ DLen(data) >= 2
    /\ writes # <<>>
    /\ Head(writes).newcount = wrapping_add(first_count, DLen(data) - 1)
    /\ \E r \in Registered : unread_data[r] # <<>>

\* C18: a reserved slot survives until commit. While BorrowWrite handles are
\* outstanding their slots are retained and are the newest slots of data, in
\* the order of allocation: no acknowledge has evicted them, and at commit
\* the slot with the handle's number is still at the tail.
C18_ReservedSurvives ==
    \A k \in 1 .. Len(writes) :
        /\ Retained(writes[k].newcount)
        /\ wrapping_sub(writes[k].newcount, first_count) =
               DLen(data) - Len(writes) + k - 1

====
